---- MODULE Spec2Model ----
(***************************************************************************)
(* Dependency-graph builder of src/main.py: dfs_build_graph (recursive     *)
(* DFS with cycle detection, depth limit and substring filter) and         *)
(* get_reverse_deps (reverse-dependency resolver).                         *)
(*                                                                         *)
(* Package names are strings; a name is modelled as the sequence of its    *)
(* characters so that Python's substring test `filter_str in d` is a real  *)
(* computation.  The recursion of dfs_build_graph is modelled with an      *)
(* explicit stack of activation frames.                                    *)
(***************************************************************************)
EXTENDS Integers, Sequences, FiniteSets, TLC

\* ------------------------------------------------------------------ bounds
\* Largest total number of dependency edges of a test repository.
MaxEdges == 3
\* Largest --max-depth value tried (0 = unlimited).
MaxDepthArg == 2

\* ------------------------------------------------------------------ names
NameA == <<"A">>
NameB == <<"B">>
NameBt == <<"B", "t">>
NameC == <<"C">>
NameOrder == <<NameA, NameB, NameBt, NameC>>
Names == {NameOrder[i] : i \in 1..Len(NameOrder)}
\* --filter values tried: none, "t" (drops Bt), "B" (drops B and Bt).
Filters == {<<>>, <<"t">>, <<"B">>}
\* --package values tried; Bt contains the filters "t" and "B" itself.
Packages == {NameA, NameBt}

\* Python's `sub in s` on strings.
Contains(sub, s) ==
  \E i \in 0..(Len(s) - Len(sub)) : SubSeq(s, i + 1, i + Len(sub)) = sub

\* ------------------------------------------------------------------ source
\* A test repository (load_test_repo): every name mapped to its list of
\* direct dependencies, built from an edge list of at most MaxEdges edges.
DepsFrom(es, p) ==
  LET F[n \in 0..Len(es)] ==
        IF n = 0 THEN <<>>
        ELSE IF es[n][1] = p THEN Append(F[n - 1], es[n][2]) ELSE F[n - 1]
  IN F[Len(es)]

EdgeLists == UNION {[1..n -> Names \X Names] : n \in 0..MaxEdges}

Sources == {[p \in Names |-> DepsFrom(es, p)] : es \in EdgeLists}

VARIABLES
  source,      \* test_repo: name -> list of direct dependencies
  package,     \* config["package_name"], the root of the build
  filter_str,  \* config["filter_substring"]
  max_depth,   \* config["max_depth"]
  graph,       \* Dict[str, List[str]]: a function whose DOMAIN is the key set
  visited,     \* Set[str]
  rec_stack,   \* Set[str]
  stack,       \* activations of dfs_build_graph past line 296, innermost last
  pc,          \* position of the innermost activation
  callee,      \* arguments (pkg, current_depth) of the call being entered
  has_cycle,   \* value returned to main by the outermost call
  queried,     \* log of deps_func calls: <<pkg, current_depth>>, in order
  stored,      \* log of `graph[pkg] = filtered` assignments, in order
  recursed,    \* per name, the dependencies its loop has called, in order
  hits,        \* calls that returned at line 291 or 293: <<pkg, depth, kind>>
  target,      \* get_reverse_deps: target
  rev,         \* get_reverse_deps: rev dict, name -> list of parents
  result,      \* get_reverse_deps: result set
  rvisited,    \* get_reverse_deps: visited set of dfs_rev
  rstack,      \* activations of dfs_rev, innermost last
  rcallee,     \* argument of the dfs_rev call being entered
  rpc          \* position in get_reverse_deps

bvars == <<graph, visited, rec_stack, stack, pc, callee, has_cycle,
           queried, stored, recursed, hits>>
ivars == <<source, package, filter_str, max_depth>>
rvars == <<target, rev, result, rvisited, rstack, rcallee, rpc>>
vars == <<ivars, bvars, rvars>>

NoName == <<>>
EmptyGraph == [n \in {} |-> <<>>]

\* ------------------------------------------------------------------ helpers
\* get_deps of main, test mode: test_repo.get(p, []).
deps_func(p) == IF p \in DOMAIN source THEN source[p] ELSE <<>>

\* [d for d in raw_deps if filter_str not in d]
RECURSIVE FilterList(_, _)
FilterList(raw, f) ==
  IF raw = <<>> THEN <<>>
  ELSE (IF ~Contains(f, Head(raw)) THEN <<Head(raw)>> ELSE <<>>)
         \o FilterList(Tail(raw), f)

\* Faulty variant of Filtered: drops only the names equal to the filter
\* (`d != filter_str` for `filter_str not in d`).
FilteredExactOnly(raw, f) ==
  IF f = <<>> THEN raw ELSE SelectSeq(raw, LAMBDA d : d # f)

\* Faulty variant of Filtered: the list is rebuilt without repeated names.
RECURSIVE Dedup(_)
Dedup(seq) ==
  IF seq = <<>> THEN <<>>
  ELSE LET front == Dedup(SubSeq(seq, 1, Len(seq) - 1))
           x == seq[Len(seq)]
       IN IF \E j \in DOMAIN front : front[j] = x THEN front
          ELSE Append(front, x)
FilteredDedup(raw, f) ==
  Dedup(IF f = <<>> THEN raw ELSE FilterList(raw, f))

\* lines 299-302
Filtered(raw, f) == IF f = <<>> THEN raw ELSE FilterList(raw, f)

\* Faulty variant of OnRecStack: the in-progress test is missing.
OnRecStackNever(pkg) == FALSE

\* line 289
OnRecStack(pkg) == pkg \in rec_stack

\* Faulty variant of AlreadyVisited: the visited test is missing.
AlreadyVisitedNever(pkg) == FALSE

\* line 292
AlreadyVisited(pkg) == pkg \in visited

\* Faulty variant of AtDepthLimit: `>` for `>=`.
AtDepthLimitOffByOne(md, depth) == md > 0 /\ depth > md

\* line 306
AtDepthLimit(md, depth) == md > 0 /\ depth >= md

\* graph[pkg] = deps
Store(g, pkg, deps) ==
  [n \in (DOMAIN g) \cup {pkg} |-> IF n = pkg THEN deps ELSE g[n]]

Top == stack[Len(stack)]
Pop(s) == SubSeq(s, 1, Len(s) - 1)

\* Faulty variant of ReturnTo: the caller's loop returns at the first dependency
\* that reports a cycle instead of going on to the next one.
ReturnToAbortOnCycle(rest, v) ==
  IF rest = <<>>
  THEN /\ has_cycle' = v
       /\ pc' = "done"
       /\ stack' = rest
  ELSE /\ stack' = [rest EXCEPT ![Len(rest)] =
                      [@ EXCEPT !.cycle = @ \/ v,
                                !.i = IF v THEN Len(rest[Len(rest)].filtered) + 1
                                       ELSE @ + 1]]
       /\ pc' = "loop"
       /\ UNCHANGED has_cycle

\* Faulty variant of ReturnTo: `cycle = dfs_build_graph(...)`, the last
\* dependency's answer replaces the earlier ones.
ReturnToLastWins(rest, v) ==
  IF rest = <<>>
  THEN /\ has_cycle' = v
       /\ pc' = "done"
       /\ stack' = rest
  ELSE /\ stack' = [rest EXCEPT ![Len(rest)] =
                      [@ EXCEPT !.cycle = v, !.i = @ + 1]]
       /\ pc' = "loop"
       /\ UNCHANGED has_cycle

\* A call returns v to its caller: main (line 483) when no activation is
\* left, otherwise the loop of the caller (lines 312-316), which then moves
\* to its next dependency.
ReturnTo(rest, v) ==
  IF rest = <<>>
  THEN /\ has_cycle' = v
       /\ pc' = "done"
       /\ stack' = rest
  ELSE /\ stack' = [rest EXCEPT ![Len(rest)] =
                      [@ EXCEPT !.cycle = @ \/ v, !.i = @ + 1]]
       /\ pc' = "loop"
       /\ UNCHANGED has_cycle

\* ------------------------------------------------------------------ build
BuildInit ==
  /\ graph = EmptyGraph
  /\ visited = {}
  /\ rec_stack = {}
  /\ stack = <<>>
  /\ pc = "call"
  /\ callee = [pkg |-> package, depth |-> 0]
  /\ has_cycle = FALSE
  /\ queried = <<>>
  /\ stored = <<>>
  /\ recursed = [n \in Names |-> <<>>]
  /\ hits = {}

RevIdle ==
  /\ target = NoName
  /\ rev = EmptyGraph
  /\ result = {}
  /\ rvisited = {}
  /\ rstack = <<>>
  /\ rcallee = NoName
  /\ rpc = "idle"

Init ==
  /\ source \in Sources
  /\ package \in Packages
  /\ filter_str \in Filters
  /\ max_depth \in 0..MaxDepthArg
  /\ BuildInit
  /\ RevIdle

\* lines 289-291: the package is on the active path
DfsCycle ==
  /\ UNCHANGED <<ivars, rvars>>
  /\ pc = "call"
  /\ OnRecStack(callee.pkg)
  /\ hits' = hits \cup {<<callee.pkg, callee.depth, "cycle">>}
  /\ ReturnTo(stack, TRUE)
  /\ UNCHANGED <<graph, visited, rec_stack, callee, queried, stored, recursed>>

\* lines 292-293: the package was expanded before
DfsVisited ==
  /\ UNCHANGED <<ivars, rvars>>
  /\ pc = "call"
  /\ ~OnRecStack(callee.pkg)
  /\ AlreadyVisited(callee.pkg)
  /\ hits' = hits \cup {<<callee.pkg, callee.depth, "visited">>}
  /\ ReturnTo(stack, FALSE)
  /\ UNCHANGED <<graph, visited, rec_stack, callee, queried, stored, recursed>>

\* Faulty variant of DfsMark: the marks go to copies of the two sets and are lost.
DfsMarkLost ==
  /\ UNCHANGED <<ivars, rvars>>
  /\ pc = "call"
  /\ ~OnRecStack(callee.pkg)
  /\ ~AlreadyVisited(callee.pkg)
  /\ stack' = Append(stack, [pkg |-> callee.pkg, depth |-> callee.depth,
                             filtered |-> <<>>, i |-> 1, cycle |-> FALSE])
  /\ pc' = "fetch"
  /\ UNCHANGED <<graph, visited, rec_stack, callee, has_cycle, queried,
                 stored, recursed, hits>>

\* lines 295-296
DfsMark ==
  /\ UNCHANGED <<ivars, rvars>>
  /\ pc = "call"
  /\ ~OnRecStack(callee.pkg)
  /\ ~AlreadyVisited(callee.pkg)
  /\ visited' = visited \cup {callee.pkg}
  /\ rec_stack' = rec_stack \cup {callee.pkg}
  /\ stack' = Append(stack, [pkg |-> callee.pkg, depth |-> callee.depth,
                             filtered |-> <<>>, i |-> 1, cycle |-> FALSE])
  /\ pc' = "fetch"
  /\ UNCHANGED <<graph, callee, has_cycle, queried, stored, recursed, hits>>

\* lines 298-303
DfsFetch ==
  /\ UNCHANGED <<ivars, rvars>>
  /\ pc = "fetch"
  /\ LET pkg == Top.pkg
         raw_deps == deps_func(pkg)
         filtered == Filtered(raw_deps, filter_str)
     IN /\ queried' = Append(queried, <<pkg, Top.depth>>)
        /\ graph' = Store(graph, pkg, filtered)
        /\ stored' = Append(stored, pkg)
        /\ stack' = [stack EXCEPT ![Len(stack)].filtered = filtered]
  /\ pc' = "limit"
  /\ UNCHANGED <<visited, rec_stack, callee, has_cycle, recursed, hits>>

\* Faulty variant of DfsDepthLimit: the early return forgets rec_stack.remove(pkg).
DfsDepthLimitLeavesMark ==
  /\ UNCHANGED <<ivars, rvars>>
  /\ pc = "limit"
  /\ AtDepthLimit(max_depth, Top.depth)
  /\ ReturnTo(Pop(stack), FALSE)
  /\ UNCHANGED <<graph, visited, rec_stack, callee, queried, stored,
                 recursed, hits>>

\* lines 306-308
DfsDepthLimit ==
  /\ UNCHANGED <<ivars, rvars>>
  /\ pc = "limit"
  /\ AtDepthLimit(max_depth, Top.depth)
  /\ rec_stack' = rec_stack \ {Top.pkg}
  /\ ReturnTo(Pop(stack), FALSE)
  /\ UNCHANGED <<graph, visited, callee, queried, stored, recursed, hits>>

\* line 310
DfsBeginLoop ==
  /\ UNCHANGED <<ivars, rvars>>
  /\ pc = "limit"
  /\ ~AtDepthLimit(max_depth, Top.depth)
  /\ stack' = [stack EXCEPT ![Len(stack)].cycle = FALSE]
  /\ pc' = "loop"
  /\ UNCHANGED <<graph, visited, rec_stack, callee, has_cycle,
                 queried, stored, recursed, hits>>

\* lines 311-315: the loop calls dfs_build_graph on its next dependency
DfsLoopCall ==
  /\ UNCHANGED <<ivars, rvars>>
  /\ pc = "loop"
  /\ Top.i <= Len(Top.filtered)
  /\ callee' = [pkg |-> Top.filtered[Top.i], depth |-> Top.depth + 1]
  /\ recursed' = [recursed EXCEPT ![Top.pkg] = Append(@, Top.filtered[Top.i])]
  /\ pc' = "call"
  /\ UNCHANGED <<graph, visited, rec_stack, stack, has_cycle,
                 queried, stored, hits>>

\* lines 318-319
DfsReturn ==
  /\ UNCHANGED <<ivars, rvars>>
  /\ pc = "loop"
  /\ Top.i > Len(Top.filtered)
  /\ rec_stack' = rec_stack \ {Top.pkg}
  /\ ReturnTo(Pop(stack), Top.cycle)
  /\ UNCHANGED <<graph, visited, callee, queried, stored, recursed, hits>>

BuildNext ==
  \/ DfsCycle
  \/ DfsVisited
  \/ DfsMark
  \/ DfsFetch
  \/ DfsDepthLimit
  \/ DfsBeginLoop
  \/ DfsLoopCall
  \/ DfsReturn

Next == BuildNext

Spec == Init /\ [][Next]_vars

\* ------------------------------------------------------------------ reverse
\* Keys of a dict in insertion order, from the log of its assignments.
RECURSIVE KeyOrder(_)
KeyOrder(log) ==
  IF log = <<>> THEN <<>>
  ELSE LET front == KeyOrder(Pop(log))
           k == log[Len(log)]
       IN IF \E j \in DOMAIN front : front[j] = k THEN front
          ELSE Append(front, k)

\* One p appended per occurrence of d in deps (inner loop, lines 326-327).
Occurrences(deps, d, p) ==
  LET hit == SelectSeq(deps, LAMBDA x : x = d)
  IN [j \in 1..Len(hit) |-> p]

\* rev[d] after the loops of lines 325-327 over the keys in `order`.
RECURSIVE ParentsOf(_, _, _)
ParentsOf(g, order, d) ==
  IF order = <<>> THEN <<>>
  ELSE ParentsOf(g, Pop(order), d)
         \o Occurrences(g[order[Len(order)]], d, order[Len(order)])

\* lines 324-327
RevDict(g, order) ==
  [d \in UNION {{g[p][j] : j \in DOMAIN g[p]} : p \in DOMAIN g}
     |-> ParentsOf(g, order, d)]

\* rev.get(node, [])
RevGet(node) == IF node \in DOMAIN rev THEN rev[node] ELSE <<>>

\* line 333
RevSeenBefore(node) == node \in rvisited

RTop == rstack[Len(rstack)]

\* dfs_rev returns to line 340 or to the loop of its caller
RevReturnTo(rest) ==
  /\ rstack' = rest
  /\ rpc' = IF rest = <<>> THEN "done" ELSE "loop"

\* lines 322-330 and the call of line 340
RevStart(t) ==
  /\ pc = "done"
  /\ rpc = "idle"
  /\ target' = t
  /\ rev' = RevDict(graph, KeyOrder(stored))
  /\ result' = {}
  /\ rvisited' = {}
  /\ rcallee' = t
  /\ rpc' = "call"
  /\ UNCHANGED <<ivars, bvars, rstack>>

\* lines 333-334
RevSeen ==
  /\ rpc = "call"
  /\ RevSeenBefore(rcallee)
  /\ RevReturnTo(rstack)
  /\ UNCHANGED <<ivars, bvars, target, rev, result, rvisited, rcallee>>

\* line 335
RevEnter ==
  /\ rpc = "call"
  /\ ~RevSeenBefore(rcallee)
  /\ rvisited' = rvisited \cup {rcallee}
  /\ rstack' = Append(rstack, [node |-> rcallee, parents |-> RevGet(rcallee),
                               i |-> 1])
  /\ rpc' = "loop"
  /\ UNCHANGED <<ivars, bvars, target, rev, result, rcallee>>

\* Faulty variant of RevLoopCall: the parent is collected but dfs_rev is not
\* called on it.
RevLoopCallDirectOnly ==
  /\ rpc = "loop"
  /\ RTop.i <= Len(RTop.parents)
  /\ result' = result \cup {RTop.parents[RTop.i]}
  /\ rstack' = [rstack EXCEPT ![Len(rstack)].i = @ + 1]
  /\ UNCHANGED <<ivars, bvars, target, rev, rvisited, rcallee, rpc>>

\* lines 336-338
RevLoopCall ==
  /\ rpc = "loop"
  /\ RTop.i <= Len(RTop.parents)
  /\ result' = result \cup {RTop.parents[RTop.i]}
  /\ rcallee' = RTop.parents[RTop.i]
  /\ rstack' = [rstack EXCEPT ![Len(rstack)].i = @ + 1]
  /\ rpc' = "call"
  /\ UNCHANGED <<ivars, bvars, target, rev, rvisited>>

\* the loop of line 336 is exhausted
RevReturn ==
  /\ rpc = "loop"
  /\ RTop.i > Len(RTop.parents)
  /\ RevReturnTo(Pop(rstack))
  /\ UNCHANGED <<ivars, bvars, target, rev, result, rvisited, rcallee>>

RevNext ==
  \/ \E t \in Names : RevStart(t)
  \/ RevSeen
  \/ RevEnter
  \/ RevLoopCall
  \/ RevReturn

\* A finished forward graph handed to get_reverse_deps: any test repository,
\* with every name as a key or only the names that have dependencies.
Restrict(f, K) == [n \in K |-> f[n]]

InOrder(K) == SelectSeq(NameOrder, LAMBDA n : n \in K)

RevInit ==
  /\ source \in Sources
  /\ package = NameA
  /\ filter_str = <<>>
  /\ max_depth = 0
  /\ graph \in {Restrict(source, Names),
                Restrict(source, {n \in Names : source[n] # <<>>})}
  /\ visited = DOMAIN graph
  /\ rec_stack = {}
  /\ stack = <<>>
  /\ pc = "done"
  /\ callee = [pkg |-> package, depth |-> 0]
  /\ has_cycle = FALSE
  /\ queried = <<>>
  /\ stored = InOrder(DOMAIN graph)
  /\ recursed = [n \in Names |-> <<>>]
  /\ hits = {}
  /\ RevIdle

SpecRev == RevInit /\ [][RevNext]_vars

\* ------------------------------------------------------------------ claims
\* Vocabulary of the claims, defined from the source map and the inputs only.

Range(seq) == {seq[j] : j \in DOMAIN seq}
Count(seq, x) == Cardinality({j \in DOMAIN seq : seq[j] = x})
IsPrefix(a, b) == Len(a) <= Len(b) /\ SubSeq(b, 1, Len(a)) = a

\* The name survives the filter.
Kept(d) == filter_str = <<>> \/ ~Contains(filter_str, d)

\* Dependency edges of the source whose target survives the filter.
SrcEdges == {e \in Names \X Names : e[2] \in Range(source[e[1]]) /\ Kept(e[2])}

\* Edges stored in the graph.
GraphEdges == {e \in (DOMAIN graph) \X Names : e[2] \in Range(graph[e[1]])}

Succ(v, R) == {e[2] : e \in {x \in R : x[1] = v}}

\* Names reachable from the set S by zero or more edges of R.
RECURSIVE Reach(_, _)
Reach(S, R) ==
  LET T == S \cup UNION {Succ(v, R) : v \in S}
  IN IF T = S THEN S ELSE Reach(T, R)

\* v reaches w by one or more edges of R.
ReachesPlus(v, w, R) == w \in Reach(Succ(v, R), R)

\* Some name of V lies on a directed cycle of R that stays inside V.
CyclicOn(V, R) ==
  LET RV == {e \in R : e[1] \in V /\ e[2] \in V}
  IN \E v \in V : ReachesPlus(v, v, RV)

Done == pc = "done"
QueriedNames == {queried[j][1] : j \in DOMAIN queried}
Reachable == Reach({package}, SrcEdges)

\* C1: with max_depth = 0, when build returns the keys of the graph are
\* exactly the names reachable from the root over dependency edges whose
\* target survives the filter; no name is ever stored twice and every key
\* is stored once; and every key's loop has called all of its stored
\* dependencies, also those that follow a dependency reported as a cycle.
C1_KeysAreReachableSet ==
  max_depth = 0 =>
    /\ \A n \in Names : Count(stored, n) <= 1
    /\ Done =>
         /\ DOMAIN graph = Reachable
         /\ \A k \in DOMAIN graph : Count(stored, k) = 1
         /\ \A k \in DOMAIN graph : recursed[k] = graph[k]

\* A reports itself as a cycle at its first dependency and its sibling B
\* is expanded all the same.
C1_Witness ==
  /\ Done /\ max_depth = 0 /\ filter_str = <<>> /\ package = NameA
  /\ source[NameA] = <<NameA, NameB>>
  /\ <<NameA, 1, "cycle">> \in hits
  /\ DOMAIN graph = {NameA, NameB}

\* C2: with max_depth = 0, build returns cycle_detected = TRUE exactly when
\* the part of the source reachable from the root over kept edges has a
\* directed cycle (a self-dependency included); for A -> [B], B -> [A] and
\* no filter it returns TRUE with graph {A: [B], B: [A]}.
C2_CycleFlagIffCycle ==
  (Done /\ max_depth = 0) =>
    /\ has_cycle <=> CyclicOn(Reachable, SrcEdges)
    /\ ( /\ package = NameA /\ filter_str = <<>>
         /\ source[NameA] = <<NameB>> /\ source[NameB] = <<NameA>> )
       => ( /\ has_cycle
            /\ DOMAIN graph = {NameA, NameB}
            /\ graph[NameA] = <<NameB>> /\ graph[NameB] = <<NameA>> )

C2_Witness ==
  /\ Done /\ max_depth = 0 /\ package = NameA /\ filter_str = <<>>
  /\ source[NameA] = <<NameB>> /\ source[NameB] = <<NameA>>
  /\ has_cycle
  /\ graph[NameA] = <<NameB>> /\ graph[NameB] = <<NameA>>

\* A package that lists itself is reported as a cycle.
C2_WitnessSelf ==
  /\ Done /\ max_depth = 0 /\ source[package] = <<package>> /\ has_cycle

\* C3: within one build deps_of is called at most once for every name, and
\* when build returns exactly once for every key and for no other name,
\* whatever the depth limit and however often the name is reached again.
C3_QueriedOnce ==
  /\ \A n \in Names : Count([j \in DOMAIN queried |-> queried[j][1]], n) <= 1
  /\ Done =>
       /\ QueriedNames = DOMAIN graph
       /\ \A k \in DOMAIN graph :
            Count([j \in DOMAIN queried |-> queried[j][1]], k) = 1

\* A name first expanded at the depth limit is reached again at a
\* shallower depth and is not expanded a second time.
C3_Witness ==
  /\ Done /\ max_depth > 0
  /\ \E j \in DOMAIN queried : \E h \in hits :
       /\ queried[j][2] = max_depth
       /\ h[1] = queried[j][1]
       /\ h[2] < max_depth
       /\ h[3] = "visited"
       /\ Count([i \in DOMAIN queried |-> queried[i][1]], h[1]) = 1

\* C4: with max_depth = N > 0 deps_of is never called at a depth above N;
\* a name expanded at depth N is a key holding its filtered list and none
\* of its dependencies is called from it, while a name expanded at a
\* depth below N has all of them called; for N = 1, A -> [B], B -> [C] the graph
\* is exactly {A: [B], B: [C]}.
C4_DepthLimit ==
  max_depth > 0 =>
    /\ \A j \in DOMAIN queried : queried[j][2] <= max_depth
    /\ Done =>
         /\ \A j \in DOMAIN queried :
              LET k == queried[j][1]
              IN /\ k \in DOMAIN graph
                 /\ graph[k] = SelectSeq(source[k], Kept)
                 /\ recursed[k] =
                      IF queried[j][2] >= max_depth THEN <<>> ELSE graph[k]
         /\ ( /\ max_depth = 1 /\ package = NameA /\ filter_str = <<>>
              /\ source[NameA] = <<NameB>> /\ source[NameB] = <<NameC>> )
            => ( /\ DOMAIN graph = {NameA, NameB}
                 /\ graph[NameA] = <<NameB>> /\ graph[NameB] = <<NameC>> )

C4_Witness ==
  /\ Done /\ max_depth = 1 /\ package = NameA /\ filter_str = <<>>
  /\ source[NameA] = <<NameB>> /\ source[NameB] = <<NameC>>
  /\ DOMAIN graph = {NameA, NameB}
  /\ graph[NameB] = <<NameC>>
  /\ recursed[NameB] = <<>>

\* C5: with a non-empty filter no stored list holds a name that contains
\* the filter, and no name that contains it, except the root, is called,
\* queried or becomes a key; for filter "t" and A -> [B, Bt, C], graph[A] = [B, C].
C5_FilterDrops ==
  filter_str # <<>> =>
    /\ \A k \in DOMAIN graph : \A j \in DOMAIN graph[k] :
         ~Contains(filter_str, graph[k][j])
    /\ \A n \in QueriedNames \cup DOMAIN graph \cup {callee.pkg} :
         Contains(filter_str, n) => n = package
    /\ ( /\ Done /\ package = NameA /\ filter_str = <<"t">>
         /\ source[NameA] = <<NameB, NameBt, NameC>> )
       => ( /\ graph[NameA] = <<NameB, NameC>>
            /\ NameBt \notin QueriedNames )

C5_Witness ==
  /\ Done /\ package = NameA /\ filter_str = <<"t">>
  /\ source[NameA] = <<NameB, NameBt, NameC>>
  /\ graph[NameA] = <<NameB, NameC>>
  /\ DOMAIN graph = {NameA, NameB, NameC}
  /\ NameBt \notin QueriedNames

\* ------------------------------------------------------------------ C6
\* Keys from which the target is reachable by one or more stored edges.
Ancestors(t) == {p \in DOMAIN graph : ReachesPlus(p, t, GraphEdges)}

\* Work left in get_reverse_deps: unvisited names weigh more than any loop.
RevRemaining(fr) == Len(fr.parents) - fr.i + 1
RECURSIVE RevFrameWork(_)
RevFrameWork(st) ==
  IF st = <<>> THEN 0
  ELSE 2 * RevRemaining(st[Len(st)]) + 1 + RevFrameWork(Pop(st))
LongestRev ==
  LET lens == {Len(rev[d]) : d \in DOMAIN rev} \cup {0}
  IN CHOOSE m \in lens : \A x \in lens : x <= m
RevMeasure ==
  (2 * LongestRev + 2) * Cardinality(Names \ rvisited)
    + RevFrameWork(rstack)
    + (IF rpc = "call" THEN 1 ELSE 0)

\* C6: for any finite forward graph, cyclic or not, reverse_of terminates
\* (it can always take a step until it returns, and every step after the
\* start lowers a natural-number measure) and returns exactly the keys from
\* which the target is reachable by one or more stored edges.
C6_ReverseDeps ==
  /\ [](rpc = "done" => result = Ancestors(target))
  /\ [](rpc \in {"call", "loop"} => ENABLED RevNext)
  /\ [][rpc # "idle" => RevMeasure' < RevMeasure]_vars

\* {A: [B], C: [B]}: reverse_of(B) = {A, C}
C6_Witness ==
  /\ rpc = "done"
  /\ DOMAIN graph = {NameA, NameC}
  /\ graph[NameA] = <<NameB>> /\ graph[NameC] = <<NameB>>
  /\ target = NameB
  /\ result = {NameA, NameC}

\* {A: [B], C: [B]}: reverse_of(A) = {}
C6_WitnessEmpty ==
  /\ rpc = "done"
  /\ DOMAIN graph = {NameA, NameC}
  /\ graph[NameA] = <<NameB>> /\ graph[NameC] = <<NameB>>
  /\ target = NameA
  /\ result = {}

\* a cyclic graph with a transitive ancestor
C6_WitnessCycle ==
  /\ rpc = "done"
  /\ DOMAIN graph = Names
  /\ graph[NameA] = <<NameB>> /\ graph[NameB] = <<NameA>>
  /\ graph[NameC] = <<NameA>>
  /\ target = NameB
  /\ result = {NameA, NameB, NameC}

\* ------------------------------------------------------------------ C7
\* Work left in a build: an unvisited name weighs more than one activation.
Remaining(fr) == Len(fr.filtered) - fr.i + 1
RECURSIVE FrameWork(_)
FrameWork(st) ==
  IF st = <<>> THEN 0
  ELSE 2 * Remaining(st[Len(st)]) + 1 + FrameWork(Pop(st))
LongestList ==
  LET lens == {Len(source[n]) : n \in Names}
  IN CHOOSE m \in lens : \A x \in lens : x <= m
Measure ==
  (2 * LongestList + 5) * Cardinality(Names \ visited)
    + FrameWork(stack)
    + (CASE pc = "call" -> 1
         [] pc = "fetch" -> 2 * LongestList + 4
         [] pc = "limit" -> 3
         [] pc = "loop" -> 2
         [] OTHER -> 0)

C8_StoredListOrder ==
  /\ \A k \in DOMAIN graph :
       /\ graph[k] = SelectSeq(source[k], Kept)
       /\ IsPrefix(recursed[k], graph[k])
  /\ \A n \in Names \ DOMAIN graph : recursed[n] = <<>>
  /\ Done => \A k \in DOMAIN graph :
       recursed[k] = graph[k] \/ (max_depth > 0 /\ recursed[k] = <<>>)

\* the filter reorders nothing and an emptied list is still a key
C8_Witness ==
  /\ Done /\ package = NameA /\ filter_str = <<"t">>
  /\ source[NameA] = <<NameC, NameBt, NameB>>
  /\ graph[NameA] = <<NameC, NameB>>
  /\ recursed[NameA] = <<NameC, NameB>>
  /\ stored = <<NameA, NameC, NameB>>
  /\ graph[NameC] = <<>>
  /\ NameBt \notin DOMAIN graph

\* ------------------------------------------------------------------ C9
ActivePath == {stack[j].pkg : j \in DOMAIN stack}

\* C9: rec_stack is always a subset of visited and holds exactly the
\* packages of the active activations; visited equals the key set except
\* between marking a package and storing its list; when build has returned
\* rec_stack is empty and visited is the key set.
C9_RecStackIsActivePath ==
  /\ rec_stack \subseteq visited
  /\ rec_stack = ActivePath
  /\ Cardinality(ActivePath) = Len(stack)
  /\ pc # "fetch" => visited = DOMAIN graph
  /\ pc = "fetch" => visited = DOMAIN graph \cup {Top.pkg}
  /\ Done => rec_stack = {} /\ visited = DOMAIN graph

\* a depth-limited activation has returned and left rec_stack
C9_Witness ==
  /\ pc = "loop" /\ max_depth = 1
  /\ package = NameA /\ source[NameA] = <<NameB, NameC>>
  /\ source[NameB] = <<NameA>>
  /\ visited = {NameA, NameB}
  /\ rec_stack = {NameA}
  /\ Top.i = 2

\* ------------------------------------------------------------------ C10
\* C10 as claimed: whenever build returns cycle_detected = FALSE the
\* returned graph has no directed cycle among its keys.
C10_AsClaimed ==
  (Done /\ ~has_cycle) => ~CyclicOn(DOMAIN graph, GraphEdges)

\* Keys whose loop ran: expanded at a depth below the limit.
ExpandedKeys ==
  {queried[j][1] : j \in {i \in DOMAIN queried :
                            ~(max_depth > 0 /\ queried[i][2] >= max_depth)}}

\* C10 amended: whenever build returns cycle_detected = FALSE there is no
\* directed cycle among the keys that were expanded at a depth below the
\* limit (all keys when max_depth = 0); edges stored for a key expanded at
\* the depth limit are not examined.
C10_NoCycleAmongExpanded ==
  (Done /\ ~has_cycle) => ~CyclicOn(ExpandedKeys, GraphEdges)

\* no cycle reported under a depth limit although the expanded part was
\* searched through: A -> B -> C with C at the limit
C10_Witness ==
  /\ Done /\ ~has_cycle /\ max_depth = 2 /\ package = NameA
  /\ source[NameA] = <<NameB>> /\ source[NameB] = <<NameC>>
  /\ source[NameC] = <<NameA>>
  /\ ExpandedKeys = {NameA, NameB}
  /\ CyclicOn(DOMAIN graph, GraphEdges)

====
